---- MODULE Spec2Model ----
(***************************************************************************)
(* Model of the engine supervisor of Cloud-Stock (src/app.py):             *)
(* CloudStockfishEngine (start_engine, _read_output, send_command,         *)
(* wait_for, get_best_move) and the two routes that call it.               *)
(*                                                                         *)
(* Time is counted in ticks of 0.5 s, the poll interval of wait_for        *)
(* (queue get with timeout=0.5); every duration of the source is a whole   *)
(* number of ticks.  Time passes only inside a blocking queue get.         *)
(* SpecTimed counts every poll; Spec lets a thread that polls an empty     *)
(* queue keep polling until its deadline in one step (a line that arrives  *)
(* in between is the thread not having polled yet).                        *)
(*                                                                         *)
(* A line of engine output is a sequence of tokens; the token "_" stands   *)
(* for a run of blanks, so strip() and split() are real conversions.       *)
(*                                                                         *)
(* Init is the state after CloudStockfishEngine() returned: the first      *)
(* process runs, its reader thread is blocked in readline(), and the       *)
(* handshake got both acknowledgements, or "uciok" only, or none (the      *)
(* engine has not answered yet).  start_engine runs again on every         *)
(* restart.                                                                *)
(***************************************************************************)
EXTENDS Integers, Sequences, FiniteSets, TLC

\* ---------------------------------------------------------------- bounds
\* Spec: concurrent request threads
NumCallers == 2     \* request threads of the threaded server
MaxCalls == 2       \* get_best_move calls over a run
MaxOut == 1         \* lines the engine processes write over a run
MaxSpawn == 2       \* engine processes spawned over a run
\* SpecRace: concurrent request threads that find the engine dead
RaceSpawn == 3
\* SpecSerial: one request thread, one call after the other
SerialCalls == 2
SerialOut == 4
SerialSpawn == 2
\* SpecTimed: one request thread, every poll counted
TimedCalls == 2
TimedOut == 3
TimedSpawn == 2
\* SpecCalc: the inputs of one request
BelowZero == 2           \* request depths from -BelowZero
MaxDepthInput == 33
MaxTimeInput == 30

\* ------------------------------------------------------ program constants
TicksPerSecond == 2     \* one tick is the 0.5 s poll of wait_for
WaitForPoll == 1        \* output_queue.get(timeout=0.5)
SearchPoll == 2         \* output_queue.get(timeout=1.0)
HandshakeTimeout == 20  \* wait_for(..., timeout=10)
NumSetOptions == 6      \* the six setoption commands of start_engine
DepthMin == 5
DepthMax == 25
RouteDepthMax == 30
DepthTicksPerPly == 3   \* depth * 1.5 s
DepthFloor == 40        \* 20 s
GraceTicks == 16        \* time_limit + 8 s
MsPerSecond == 1000
MovetimeCap == 25000
HealthDepth == 5
HealthTimeLimit == 3

Min(a, b) == IF a < b THEN a ELSE b
Max(a, b) == IF a > b THEN a ELSE b

Callers == 1..NumCallers
MaxProcs == Max(Max(MaxSpawn, RaceSpawn), Max(SerialSpawn, TimedSpawn))
ProcIds == 1..MaxProcs
None == 0                       \* Python None for self.process (and "no request")

\* ------------------------------------------------------------ text of lines
WS == "_"

RECURSIVE LStrip(_)
LStrip(s) == IF s # <<>> /\ Head(s) = WS THEN LStrip(Tail(s)) ELSE s

RECURSIVE RStrip(_)
RStrip(s) ==
    IF s # <<>> /\ s[Len(s)] = WS THEN RStrip(SubSeq(s, 1, Len(s) - 1)) ELSE s

\* str.strip()
Strip(s) == RStrip(LStrip(s))

\* str.split(): the fields between runs of blanks
RECURSIVE Split(_)
Split(s) ==
    IF s = <<>> THEN <<>>
    ELSE IF Head(s) = WS THEN Split(Tail(s))
    ELSE <<Head(s)>> \o Split(Tail(s))

\* expected_response in response (the tokens are the substrings that matter)
Contains(line, tok) == \E i \in 1..Len(line) : line[i] = tok

\* response.startswith("bestmove")
StartsWithBestmove(line) == line # <<>> /\ line[1] = "bestmove"

\* The raw lines an engine writes, as readline() returns them: the last
\* token is the newline.
UciokText == <<"uciok", WS>>
ReadyokText == <<"readyok", WS>>
InfoText == <<"info", WS, "depth", WS>>
BestmoveForms == {"ponder", "none", "bare"}
BestmoveText(form) ==
    CASE form = "ponder" -> <<"bestmove", WS, "e2e4", WS, "ponder", WS, "e7e5", WS>>
      [] form = "none"   -> <<"bestmove", WS, "(none)", WS>>
      [] form = "bare"   -> <<"bestmove", WS>>

\* ------------------------------------------------------------------ state
VARIABLES
    process,       \* self.process: a process id, or None
    procs,         \* the OS processes spawned so far
    output_queue,  \* self.output_queue
    readers,       \* the reader threads (_read_output), one per start_engine
    th,            \* the request threads
    nspawn,        \* processes spawned
    ncalls,        \* get_best_move calls started
    last           \* the latest finished call: "timeout" (returned on
                   \* timeout, process alive), "other", or "none" yet

vars == <<process, procs, output_queue, readers, th, nspawn, ncalls,
          last>>

\* A line the engine wrote: p the process, n its number among the lines of
\* p, r the request it answers (completion lines), txt its tokens.
NoLine == [p |-> None, n |-> 0, r |-> None, txt |-> <<>>]

\* st: "none" (not spawned), "alive", "dead"; out: its stdout pipe; inbox:
\* the commands it has to answer, in the order it got them ("uci",
\* "isready", or "go" with the request it is for); nout: lines written; hs: what
\* the handshake of start_engine got ("no": not finished, "yes": both
\* acknowledgements, "missed": a wait_for returned None).
NoProc == [st |-> "none", out |-> <<>>, inbox |-> <<>>, nout |-> 0,
           hs |-> "no"]

NoReader == [pc |-> "none", on |-> None]

IdleThread == [pc |-> "idle", via |-> "none", rawdepth |-> 0, depth |-> 0,
               tl |-> <<>>, sdepth |-> 0, movetime |-> 0, timeout |-> 0,
               elapsed |-> 0, nwaits |-> 0,
               restarts |-> 0, deadAtEntry |-> FALSE, req |-> None, gos |-> 0,
               mine |-> None, used |-> None, ackU |-> "no", line |-> NoLine,
               path |-> "none", retval |-> <<>>, aliveAtRet |-> FALSE,
               prev |-> "none"]

\* self.process and self.process.poll() is None
Alive(ps, p) == p # None /\ ps[p].st = "alive"

\* The lines written by all processes so far.
RECURSIVE Written(_, _)
Written(ps, n) == IF n = 0 THEN 0 ELSE ps[n].nout + Written(ps, n - 1)

MayWrite(maxout) == Written(procs, MaxProcs) < maxout

Init ==
    /\ process = 1
    /\ \E unanswered \in {<<>>, <<"isready">>, <<"uci", "isready">>} :
         procs = [p \in ProcIds |->
                    IF p # 1 THEN NoProc
                    ELSE [NoProc EXCEPT
                            !.st = "alive",
                            !.inbox = [i \in 1..Len(unanswered) |->
                                         [cmd |-> unanswered[i], r |-> None]],
                            !.hs = IF unanswered = <<>> THEN "yes"
                                   ELSE "missed"]]
    /\ output_queue = <<>>
    /\ readers = [p \in ProcIds |->
                    IF p = 1 THEN [pc |-> "read", on |-> 1] ELSE NoReader]
    /\ th = [t \in Callers |-> IdleThread]
    /\ nspawn = 1
    /\ ncalls = 0
    /\ last = "none"

\* ------------------------------------------------------ the engine process
\* What a command written to its stdin does to an engine process.
Receive(pr, cmd, req) ==
    IF cmd \in {"uci", "isready", "go"}
    THEN [pr EXCEPT !.inbox = Append(@, [cmd |-> cmd, r |-> req])]
    ELSE pr

\* The command the engine is working on.
Todo(p) == IF procs[p].inbox = <<>> THEN [cmd |-> "nothing", r |-> None]
           ELSE Head(procs[p].inbox)

Searching(p) == Todo(p).cmd = "go"

\* The process writes a line to its stdout.
Write(p, line, done) ==
    procs' = [procs EXCEPT ![p].nout = @ + 1,
                           ![p].out = Append(@, [line EXCEPT !.n =
                                                   procs[p].nout + 1]),
                           ![p].inbox = IF done THEN Tail(@) ELSE @]

\* The engine answers "uci".
EngineUciok(p, maxout) ==
    /\ procs[p].st = "alive" /\ Todo(p).cmd = "uci" /\ MayWrite(maxout)
    /\ Write(p, [NoLine EXCEPT !.p = p, !.txt = UciokText], TRUE)
    /\ UNCHANGED <<process, output_queue, readers, th, nspawn, ncalls, last>>

\* The engine answers "isready".
EngineReadyok(p, maxout) ==
    /\ procs[p].st = "alive" /\ Todo(p).cmd = "isready" /\ MayWrite(maxout)
    /\ Write(p, [NoLine EXCEPT !.p = p, !.txt = ReadyokText], TRUE)
    /\ UNCHANGED <<process, output_queue, readers, th, nspawn, ncalls, last>>

\* The engine reports progress of the search it is running.
EngineInfo(p, maxout) ==
    /\ procs[p].st = "alive" /\ Searching(p) /\ MayWrite(maxout)
    /\ Write(p, [NoLine EXCEPT !.p = p, !.txt = InfoText], FALSE)
    /\ UNCHANGED <<process, output_queue, readers, th, nspawn, ncalls, last>>

\* The engine finishes the search it is running and writes the completion
\* line.
EngineBestmove(p, maxout) ==
    /\ procs[p].st = "alive" /\ Searching(p) /\ MayWrite(maxout)
    /\ \E form \in BestmoveForms :
         Write(p, [NoLine EXCEPT !.p = p, !.r = Todo(p).r,
                                 !.txt = BestmoveText(form)], TRUE)
    /\ UNCHANGED <<process, output_queue, readers, th, nspawn, ncalls, last>>

\* The engine process exits (crash or kill); what it wrote stays in the pipe.
EngineDie(p) ==
    /\ procs[p].st = "alive"
    /\ procs' = [procs EXCEPT ![p].st = "dead"]
    /\ UNCHANGED <<process, output_queue, readers, th, nspawn, ncalls, last>>

\* ------------------------------------------------------------ _read_output
\* while self.process and self.process.poll() is None: the thread goes on to
\* readline() on the stdout of what self.process is now, or ends
ReadLoop == IF Alive(procs, process) THEN [pc |-> "read", on |-> process]
            ELSE [pc |-> "done", on |-> None]

\* The thread starts running: the first test of the loop.
ReaderCheck(r) ==
    /\ readers[r].pc = "check"
    /\ readers' = [readers EXCEPT ![r] = ReadLoop]
    /\ UNCHANGED <<process, procs, output_queue, th, nspawn, ncalls, last>>

\* The other reader threads that are in readline() on the same stdout.
Racing(r) ==
    {o \in ProcIds \ {r} :
       readers[o].pc = "read" /\ readers[o].on = readers[r].on}

\* line.strip() of a line read
Stripped(line) == [line EXCEPT !.txt = Strip(@)]

\* What readline() and put(line.strip()) of reader r make of the pipe it
\* reads, the queue and the readers.  Alone on its pipe, r puts the line it
\* read.  Readers that share a pipe race: each reads one of two lines, and
\* the one that read the second may put it first.
ReadOutcomes(r) ==
    LET p == readers[r].on
        out == procs[p].out
    IN {[out |-> Tail(out),
         q |-> Append(output_queue, Stripped(Head(out))),
         rs |-> [readers EXCEPT ![r] = ReadLoop]]}
       \cup
       {[out |-> Tail(Tail(out)),
         q |-> output_queue \o <<Stripped(out[2]), Stripped(out[1])>>,
         rs |-> [readers EXCEPT ![r] = ReadLoop, ![o] = ReadLoop]] :
          o \in IF Len(out) >= 2 THEN Racing(r) ELSE {}}

\* line = readline(); if line: put(line.strip()), and the loop is tested
\* again; else (end of file): break
ReaderRead(r) ==
    /\ readers[r].pc = "read"
    /\ LET p == readers[r].on IN
         IF procs[p].out # <<>>
         THEN \E o \in ReadOutcomes(r) :
                /\ procs' = [procs EXCEPT ![p].out = o.out]
                /\ output_queue' = o.q
                /\ readers' = o.rs
         ELSE /\ procs[p].st = "dead"
              /\ readers' = [readers EXCEPT ![r] = [pc |-> "done", on |-> None]]
              /\ UNCHANGED <<procs, output_queue>>
    /\ UNCHANGED <<process, th, nspawn, ncalls, last>>

\* ------------------------------------------------------------ send_command
\* The processes after send_command(cmd): nothing is written when the
\* process is gone; a write that finds the pipe closed (the process exits
\* between poll() and write()) raises, and the exception is swallowed.
SendCommand(ps, cmd, req) ==
    IF Alive(ps, process)
    THEN {[ps EXCEPT ![process] = Receive(@, cmd, req)],
          [ps EXCEPT ![process].st = "dead"]}
    ELSE {ps}

\* ------------------------------------------------------------ start_engine
Set(t, rec) == th' = [th EXCEPT ![t] = rec]

\* The handler re-raises, as the one of start_engine does.
AnalysisErrorReraised(s) == [s EXCEPT !.pc = "raised"]

\* except Exception in get_best_move: print and return None
AnalysisError(s) ==
    [s EXCEPT !.pc = "returned", !.path = "error", !.retval = <<>>,
              !.aliveAtRet = Alive(procs, process)]

\* The outcome recorded when a call returns.
Returned(s, path, retval, line) ==
    [s EXCEPT !.pc = "returned", !.path = path, !.retval = retval,
              !.line = line, !.aliveAtRet = Alive(procs, process)]

\* self.process = subprocess.Popen(...); when Popen raises, start_engine
\* re-raises and get_best_move catches the exception
Popen(t, maxspawn) ==
    /\ th[t].pc = "popen"
    /\ \/ /\ nspawn < maxspawn
          /\ nspawn' = nspawn + 1
          /\ process' = nspawn + 1
          /\ procs' = [procs EXCEPT ![nspawn + 1] = [NoProc EXCEPT !.st = "alive"]]
          /\ Set(t, [th[t] EXCEPT !.pc = "startreader", !.mine = nspawn + 1])
          /\ UNCHANGED last
       \/ /\ Set(t, AnalysisError(th[t]))
          /\ last' = "other"
          /\ UNCHANGED <<process, procs, nspawn>>
    /\ UNCHANGED <<output_queue, readers, ncalls>>

\* self.reader_thread = threading.Thread(target=self._read_output); start()
StartReader(t) ==
    /\ th[t].pc = "startreader"
    /\ readers' = [readers EXCEPT ![th[t].mine] = [pc |-> "check", on |-> None]]
    /\ Set(t, [th[t] EXCEPT !.pc = "uci"])
    /\ UNCHANGED <<process, procs, output_queue, nspawn, ncalls, last>>

\* self.send_command("uci"), and wait_for starts its clock
SendUci(t) ==
    /\ th[t].pc = "uci"
    /\ procs' \in SendCommand(procs, "uci", None)
    /\ Set(t, [th[t] EXCEPT !.pc = "wait_uciok", !.elapsed = 0,
                 !.nwaits = @ + 1])
    /\ UNCHANGED <<process, output_queue, readers, nspawn, ncalls, last>>

\* The loop gives up one poll of the search wait before the deadline.
ExpiredEarly(elapsed, timeout) == ~(elapsed + SearchPoll < timeout)

\* while time.time() - start_time < timeout (wait_for and the search wait)
Expired(elapsed, timeout) == ~(elapsed < timeout)

\* The clock after get(timeout=poll) raised queue.Empty: one poll later, or
\* (acc) after the polls that remain until the loop ends.
AfterEmpty(elapsed, timeout, poll, acc) ==
    IF acc
    THEN elapsed + poll * Max(1, ((timeout - elapsed) + poll - 1) \div poll)
    ELSE elapsed + poll

\* One turn of the loop of wait_for(token, timeout=10): the thread record,
\* the queue and the result ("yes": the line came, "missed": None returned,
\* "no": still waiting).
WaitFor(s, token, acc) ==
    IF Expired(s.elapsed, HandshakeTimeout)
    THEN {[s |-> s, q |-> output_queue, res |-> "missed"]}
    ELSE IF output_queue # <<>>
    THEN {[s |-> [s EXCEPT !.elapsed = @ + d],
           q |-> Tail(output_queue),
           res |-> IF Contains(Head(output_queue).txt, token)
                   THEN "yes" ELSE "no"] : d \in 0..(WaitForPoll - 1)}
    ELSE {[s |-> [s EXCEPT !.elapsed =
                     AfterEmpty(@, HandshakeTimeout, WaitForPoll, acc)],
           q |-> output_queue, res |-> "no"]}

\* self.wait_for("uciok", timeout=10); the result is not looked at
WaitUciok(t, acc) ==
    /\ th[t].pc = "wait_uciok"
    /\ \E w \in WaitFor(th[t], "uciok", acc) :
         /\ output_queue' = w.q
         /\ IF w.res = "no"
            THEN Set(t, w.s)
            ELSE Set(t, [w.s EXCEPT !.pc = "setopt", !.elapsed = 0,
                                    !.ackU = w.res])
    /\ UNCHANGED <<process, procs, readers, nspawn, ncalls, last>>

\* The processes after n more send_command calls of commands the engine
\* does not answer.
RECURSIVE SendCommands(_, _, _)
SendCommands(pss, cmd, n) ==
    IF n = 0 THEN pss
    ELSE SendCommands(UNION {SendCommand(ps, cmd, None) : ps \in pss}, cmd,
                      n - 1)

\* the six self.send_command("setoption ...")
SetOption(t) ==
    /\ th[t].pc = "setopt"
    /\ procs' \in SendCommands({procs}, "setoption", NumSetOptions)
    /\ Set(t, [th[t] EXCEPT !.pc = "isready"])
    /\ UNCHANGED <<process, output_queue, readers, nspawn, ncalls, last>>

\* self.send_command("isready")
SendIsready(t) ==
    /\ th[t].pc = "isready"
    /\ procs' \in SendCommand(procs, "isready", None)
    /\ Set(t, [th[t] EXCEPT !.pc = "wait_readyok", !.elapsed = 0,
                 !.nwaits = @ + 1])
    /\ UNCHANGED <<process, output_queue, readers, nspawn, ncalls, last>>

\* What start_engine got from its two wait_for calls.
Handshake(ackU, ackR) ==
    IF ackU = "yes" /\ ackR = "yes" THEN "yes" ELSE "missed"

\* self.wait_for("readyok", timeout=10); start_engine returns either way
WaitReadyok(t, acc) ==
    /\ th[t].pc = "wait_readyok"
    /\ \E w \in WaitFor(th[t], "readyok", acc) :
         /\ output_queue' = w.q
         /\ IF w.res = "no"
            THEN Set(t, w.s) /\ UNCHANGED procs
            ELSE /\ Set(t, [w.s EXCEPT !.pc = "drain", !.elapsed = 0,
                                       !.ackU = "no"])
                 /\ procs' = [procs EXCEPT ![th[t].mine].hs =
                                Handshake(th[t].ackU, w.res)]
    /\ UNCHANGED <<process, readers, nspawn, ncalls, last>>

\* ----------------------------------------------------------- get_best_move
\* The /get_best_move requests of a run: (depth, time_limit) as parsed by
\* the route.
Requests == {[depth |-> 4, tl |-> <<>>]}

\* route: depth = max(5, min(depth, 30))
RouteClamp(d) == Max(DepthMin, Min(d, RouteDepthMax))

\* The time limit is never looked at: the depth decides.
TruthyNever(tl) == FALSE

\* if time_limit: (None and 0 are falsy)
Truthy(tl) == tl # <<>> /\ tl[1] # 0

\* The depth is used as the route passed it.
ClampDepthMissing(d) == d

\* depth = min(max(depth, 5), 25)
ClampDepth(d) == Min(Max(d, DepthMin), DepthMax)

\* timeout = max(depth * 1.5, 20), in ticks
DepthTimeout(d) == Max(d * DepthTicksPerPly, DepthFloor)

\* The movetime without its cap.
MovetimeUncapped(tl) == tl * MsPerSecond

\* min(time_limit * 1000, 25000)
Movetime(tl) == Min(tl * MsPerSecond, MovetimeCap)

\* The deadline one poll of the search wait longer.
TimeTimeoutLonger(tl) == tl * TicksPerSecond + GraceTicks + SearchPoll

\* timeout = time_limit + 8, in ticks
TimeTimeout(tl) == tl * TicksPerSecond + GraceTicks

\* search_cmd and timeout of a request (lines 178-184)
Search(depth, tl) ==
    IF Truthy(tl)
    THEN [cmd |-> "movetime", arg |-> Movetime(tl[1]),
          timeout |-> TimeTimeout(tl[1])]
    ELSE [cmd |-> "depth", arg |-> ClampDepth(depth),
          timeout |-> DepthTimeout(ClampDepth(depth))]

\* The sentinel is not looked at: the second field is the move.
ParseBestmoveAnyField(txt) ==
    LET parts == Split(txt) IN
      IF Len(parts) >= 2
      THEN [path |-> "move", retval |-> <<parts[2]>>]
      ELSE [path |-> "nolegal", retval |-> <<>>]

\* parts = response.split(); the move, or None for "(none)" and short lines
ParseBestmove(txt) ==
    LET parts == Split(txt) IN
      IF Len(parts) >= 2 /\ parts[2] # "(none)"
      THEN [path |-> "move", retval |-> <<parts[2]>>]
      ELSE [path |-> "nolegal", retval |-> <<>>]

\* The arguments of engine.get_best_move: from the /get_best_move route
\* (depth clamped by the route) and from /health (depth=5, time_limit=3).
Arguments(routes) ==
    {[via |-> "route", rawdepth |-> rq.depth, depth |-> RouteClamp(rq.depth),
      tl |-> rq.tl] : rq \in IF "route" \in routes THEN Requests ELSE {}}
    \cup
    {[via |-> "health", rawdepth |-> HealthDepth, depth |-> HealthDepth,
      tl |-> <<HealthTimeLimit>>] : x \in routes \cap {"health"}}

\* A request thread enters engine.get_best_move.  The global `engine` is
\* set: the server runs only after the constructor.
Call(t, maxcalls, routes) ==
    /\ th[t].pc = "idle" /\ ncalls < maxcalls
    /\ ncalls' = ncalls + 1
    /\ \E a \in Arguments(routes) :
         Set(t, [th[t] EXCEPT !.pc = "check", !.via = a.via,
                   !.rawdepth = a.rawdepth, !.depth = a.depth, !.tl = a.tl,
                   !.req = ncalls + 1, !.prev = last])
    /\ UNCHANGED <<process, procs, output_queue, readers, nspawn, last>>

\* The test inverted: restart when the process runs.
NeedsRestartInverted == Alive(procs, process)

\* if not self.process or self.process.poll() is not None
NeedsRestart == ~Alive(procs, process)

\* the liveness check at entry, and the call of start_engine
CheckAlive(t) ==
    /\ th[t].pc = "check"
    /\ IF NeedsRestart
       THEN Set(t, [th[t] EXCEPT !.pc = "popen", !.restarts = @ + 1,
                      !.deadAtEntry = ~Alive(procs, process)])
       ELSE Set(t, [th[t] EXCEPT !.pc = "drain",
                      !.deadAtEntry = ~Alive(procs, process)])
    /\ UNCHANGED <<process, procs, output_queue, readers, nspawn,
                   ncalls, last>>

\* while not self.output_queue.empty(): self.output_queue.get_nowait()
Drain(t) ==
    /\ th[t].pc = "drain"
    /\ IF output_queue # <<>>
       THEN output_queue' = Tail(output_queue) /\ UNCHANGED th
       ELSE Set(t, [th[t] EXCEPT !.pc = "position"]) /\ UNCHANGED output_queue
    /\ UNCHANGED <<process, procs, readers, nspawn, ncalls, last>>

\* self.send_command(f"position fen {fen}")
SendPosition(t) ==
    /\ th[t].pc = "position"
    /\ procs' \in SendCommand(procs, "position", None)
    /\ Set(t, [th[t] EXCEPT !.pc = "go"])
    /\ UNCHANGED <<process, output_queue, readers, nspawn, ncalls,
                   last>>

\* search_cmd and timeout are computed, the search command is sent and
\* start_time is taken
SendGo(t) ==
    /\ th[t].pc = "go"
    /\ procs' \in SendCommand(procs, "go", th[t].req)
    /\ LET s == Search(th[t].depth, th[t].tl) IN
         Set(t, [th[t] EXCEPT !.pc = "wait", !.elapsed = 0,
                   !.nwaits = @ + 1, !.gos = @ + 1,
                   !.timeout = s.timeout,
                   !.sdepth = IF s.cmd = "depth" THEN s.arg ELSE 0,
                   !.movetime = IF s.cmd = "movetime" THEN s.arg ELSE 0,
                   !.used = IF Alive(procs', process) THEN process
                            ELSE None])
    /\ UNCHANGED <<process, output_queue, readers, nspawn, ncalls,
                   last>>

\* One turn of the wait loop (lines 192-214).
WaitBestmove(t, acc) ==
    /\ th[t].pc = "wait"
    /\ IF Expired(th[t].elapsed, th[t].timeout)
       THEN /\ Set(t, Returned(th[t], "timeout", <<>>, NoLine))
            /\ last' = IF Alive(procs, process) THEN "timeout" ELSE "other"
            /\ UNCHANGED output_queue
       ELSE IF output_queue # <<>>
       THEN /\ output_queue' = Tail(output_queue)
            /\ \E d \in 0..(SearchPoll - 1) :
                 LET s == [th[t] EXCEPT !.elapsed = @ + d]
                     response == Head(output_queue)
                 IN IF StartsWithBestmove(response.txt)
                    THEN /\ Set(t, Returned(s, ParseBestmove(response.txt).path,
                                            ParseBestmove(response.txt).retval,
                                            response))
                         /\ last' = "other"
                    ELSE Set(t, s) /\ UNCHANGED last
       ELSE LET s == [th[t] EXCEPT !.elapsed =
                          AfterEmpty(@, th[t].timeout, SearchPoll, acc)]
            IN /\ UNCHANGED output_queue
               /\ IF ~Alive(procs, process)
                  THEN Set(t, Returned(s, "died", <<>>, NoLine)) /\ last' = "other"
                  ELSE Set(t, s) /\ UNCHANGED last
    /\ UNCHANGED <<process, procs, readers, nspawn, ncalls>>

\* The route has built its response from the result; the thread is free.
Finish(t) ==
    /\ th[t].pc = "returned"
    /\ Set(t, IdleThread)
    /\ UNCHANGED <<process, procs, output_queue, readers, nspawn,
                   ncalls, last>>

\* The steps of `callers` request threads that make `maxcalls` calls
\* through `routes` and spawn up to `maxspawn` processes; acc: polls of an
\* empty queue run to the deadline in one step.
ThreadStep(acc, callers, maxcalls, routes, maxspawn) ==
    \E t \in 1..callers :
         \/ Popen(t, maxspawn) \/ StartReader(t) \/ SendUci(t)
         \/ WaitUciok(t, acc) \/ SetOption(t) \/ SendIsready(t)
         \/ WaitReadyok(t, acc) \/ Call(t, maxcalls, routes) \/ CheckAlive(t)
         \/ Drain(t) \/ SendPosition(t) \/ SendGo(t) \/ WaitBestmove(t, acc)
         \/ Finish(t)

ReaderStep == \E r \in ProcIds : ReaderCheck(r) \/ ReaderRead(r)

\* The engine processes write up to `maxout` lines.
EngineTalks(maxout) ==
    \E p \in ProcIds :
         \/ EngineUciok(p, maxout) \/ EngineReadyok(p, maxout)
         \/ EngineInfo(p, maxout) \/ EngineBestmove(p, maxout)

EngineDies == \E p \in ProcIds : EngineDie(p)

Routes == {"route", "health"}

Next ==
    \/ ThreadStep(TRUE, NumCallers, MaxCalls, {"route"}, MaxSpawn)
    \/ ReaderStep \/ EngineTalks(MaxOut) \/ EngineDies

\* Concurrent /get_best_move requests.
Spec == Init /\ [][Next]_vars

NextSerial ==
    \/ ThreadStep(TRUE, 1, SerialCalls, Routes, SerialSpawn)
    \/ ReaderStep \/ EngineTalks(SerialOut) \/ EngineDies

\* One request thread: a call starts after the one before it returned.
SpecSerial == Init /\ [][NextSerial]_vars

\* The engine process has exited after the constructor returned, and its
\* reader thread has ended at the end of its output.
InitRace ==
    /\ process = 1
    /\ procs = [p \in ProcIds |->
                  IF p = 1 THEN [NoProc EXCEPT !.st = "dead", !.hs = "yes"]
                  ELSE NoProc]
    /\ output_queue = <<>>
    /\ readers = [p \in ProcIds |->
                    IF p = 1 THEN [pc |-> "done", on |-> None] ELSE NoReader]
    /\ th = [t \in Callers |-> IdleThread]
    /\ nspawn = 1
    /\ ncalls = 0
    /\ last = "none"

NextRace ==
    \/ ThreadStep(TRUE, NumCallers, MaxCalls, {"route"}, RaceSpawn)
    \/ ReaderStep \/ EngineDies

\* Concurrent /get_best_move requests that find the engine dead, with room
\* for each to spawn a process; the new processes answer nothing.
SpecRace == InitRace /\ [][NextRace]_vars

NextTimed ==
    \/ ThreadStep(FALSE, 1, TimedCalls, Routes, TimedSpawn)
    \/ ReaderStep \/ EngineTalks(TimedOut) \/ EngineDies

\* One request thread, every poll of the wait loops counted.
SpecTimed == Init /\ [][NextTimed]_vars

\* One /get_best_move request with any depth and time_limit, up to the
\* search command: what is sent and how long the wait may take.
InitCalc ==
    /\ process = 1
    /\ procs = [p \in ProcIds |->
                  IF p = 1 THEN [NoProc EXCEPT !.st = "alive", !.hs = "yes"]
                  ELSE NoProc]
    /\ output_queue = <<>>
    /\ readers = [p \in ProcIds |->
                    IF p = 1 THEN [pc |-> "read", on |-> 1] ELSE NoReader]
    /\ \E d \in (0 - BelowZero)..MaxDepthInput,
          tl \in {<<>>} \cup {<<n>> : n \in 0..MaxTimeInput} :
         th = [t \in Callers |->
                 IF t = 1
                 THEN [IdleThread EXCEPT !.pc = "check", !.via = "route",
                         !.rawdepth = d, !.depth = RouteClamp(d), !.tl = tl,
                         !.req = 1]
                 ELSE IdleThread]
    /\ nspawn = 1
    /\ ncalls = 1
    /\ last = "none"

NextCalc == CheckAlive(1) \/ Drain(1) \/ SendPosition(1) \/ SendGo(1)

SpecCalc == InitCalc /\ [][NextCalc]_vars

\* ------------------------------------------------------------------ claims
\* The analyze cycle of get_best_move: drain, position, search command, wait.
InCycle(s) == s.pc \in {"drain", "position", "go", "wait"}

\* C1: at most one analyze cycle (drain the queue, send the position, send
\* the search command, wait for the completion line) is in progress at any
\* time; a second caller does none of these steps before the first returned.
C1_OneCycleAtATime ==
    Cardinality({t \in Callers : InCycle(th[t])}) <= 1

\* C2: after a call returned on timeout with the process alive, the next
\* call never returns as its move a completion line the engine wrote for
\* the earlier request.
C2_NoStaleMove ==
    \A t \in Callers :
        (th[t].pc = "returned" /\ th[t].prev = "timeout"
           /\ th[t].line # NoLine)
        => th[t].line.r = th[t].req

\* C3: a search command is sent to a process started by a restart only if
\* the handshake of that restart got both acknowledgements ("uciok" and
\* "readyok", each within 10 s).
C3_SearchOnlyAfterHandshake ==
    \A t \in Callers :
        (th[t].pc = "wait" /\ th[t].used # None /\ th[t].used = th[t].mine)
        => procs[th[t].used].hs = "yes"

\* The ways get_best_move returns: the move, or None after "No legal
\* moves", "Process died during search", "Search timeout", "Analysis error".
Paths == {"move", "nolegal", "died", "timeout", "error"}

\* C4: every call of get_best_move returns a value (a move or None) and no
\* exception leaves it, whatever the engine does.
C4_AlwaysAResult ==
    \A t \in Callers :
        /\ th[t].pc # "raised"
        /\ th[t].pc = "returned"
             => /\ th[t].path \in Paths
                /\ (th[t].retval # <<>>) <=> (th[t].path = "move")

\* A call found the process dead, Popen raised, and the call returned None.
C4_Witness ==
    \E t \in Callers :
        th[t].pc = "returned" /\ th[t].path = "error" /\ th[t].deadAtEntry

\* C5: a call restarts the engine at most once, and only at its entry when
\* the liveness check finds the process dead (then exactly once); a call
\* sends its search command once, so a request that sees the process die
\* during the wait fails and is not sent again.
C5_OneRestartAtEntry ==
    \A t \in Callers :
        th[t].pc \notin {"idle", "check"}
        => /\ th[t].restarts = IF th[t].deadAtEntry THEN 1 ELSE 0
           /\ th[t].gos <= 1
           /\ th[t].pc = "returned" /\ th[t].path = "died" => th[t].gos = 1

\* A call restarted a dead engine once, and the new process died while the
\* call waited: the call failed.
C5_Witness ==
    \E t \in Callers :
        /\ th[t].pc = "returned" /\ th[t].path = "died"
        /\ th[t].deadAtEntry /\ th[t].restarts = 1 /\ th[t].gos = 1

\* C6: at most one live engine process exists at any time: a process is
\* spawned only when the current one has exited, also when several callers
\* find it dead at once.
C6_OneLiveProcess ==
    Cardinality({p \in ProcIds : procs[p].st = "alive"}) <= 1

\* C7: when the process stays alive and no completion line comes, the call
\* returns the timeout failure, not before the computed deadline (time_limit
\* + 8 s, or max(1.5 s * clamped depth, 20 s)) has passed since the search
\* command was sent, and the return on timeout neither ends nor replaces
\* the process.
C7_TimeoutNotBeforeDeadline ==
    /\ [](\A t \in Callers :
            LET s == th[t]
                d == IF s.depth < 5 THEN 5 ELSE IF s.depth > 25 THEN 25
                     ELSE s.depth
                deadline == IF s.tl # <<>> /\ s.tl # <<0>>
                            THEN 2 * (s.tl[1] + 8)
                            ELSE IF 3 * d > 40 THEN 3 * d ELSE 40
            IN s.pc = "returned"
               => /\ (s.aliveAtRet /\ s.line = NoLine) => s.path = "timeout"
                  /\ s.path = "timeout" => s.elapsed >= deadline)
    /\ [][\A t \in Callers :
            (th[t].pc = "wait" /\ th'[t].pc = "returned"
               /\ th'[t].path = "timeout")
            => /\ process' = process /\ procs' = procs /\ nspawn' = nspawn
               /\ th'[t].restarts = th[t].restarts]_vars

\* A depth request timed out on a running, silent process 20 s or more
\* after its search command reached it.
C7_Witness ==
    \E t \in Callers :
        /\ th[t].pc = "returned" /\ th[t].path = "timeout"
        /\ th[t].via = "route" /\ th[t].elapsed >= 40
        /\ th[t].used = process /\ Alive(procs, process)
        /\ th[t].aliveAtRet

\* C8: a call never waits past its computed deadline for the completion
\* line (nor past 10 s for an acknowledgement of the handshake).
C8_ReturnsByDeadline ==
    \A t \in Callers :
        /\ th[t].pc \in {"wait", "returned"} => th[t].elapsed <= th[t].timeout
        /\ th[t].pc \in {"wait_uciok", "wait_readyok"}
             => th[t].elapsed <= HandshakeTimeout

\* C9: a call that received a line returns on a line that begins with
\* "bestmove"; when the line has a second whitespace-separated field, the
\* call returns the no-legal-move failure if that field is "(none)", and
\* else the success with exactly that field as the move.
C9_SecondFieldIsTheMove ==
    \A t \in Callers :
        LET txt == th[t].line.txt
        IN (th[t].pc = "returned" /\ th[t].line # NoLine)
           => /\ txt[1] = "bestmove"
              /\ Len(txt) >= 3
                   => IF txt[3] = "(none)"
                      THEN th[t].path = "nolegal" /\ th[t].retval = <<>>
                      ELSE th[t].path = "move" /\ th[t].retval = <<txt[3]>>

\* A call returned the move e2e4 of "bestmove e2e4 ponder e7e5".
C9_Witness ==
    \E t \in Callers :
        /\ th[t].pc = "returned"
        /\ th[t].line.txt = <<"bestmove", WS, "e2e4", WS, "ponder", WS, "e7e5">>
        /\ th[t].path = "move" /\ th[t].retval = <<"e2e4">>

\* C10: without a time budget (time_limit None or 0) the depth of the "go
\* depth" command is the request's depth clamped into [5, 25], and the
\* deadline of the wait is max(1.5 s * that depth, 20 s).
C10_DepthClampedThenDeadline ==
    \A t \in Callers :
        LET raw == th[t].rawdepth
            d == IF raw < 5 THEN 5 ELSE IF raw > 25 THEN 25 ELSE raw
        IN (th[t].pc = "wait" /\ th[t].tl \in {<<>>, <<0>>})
           => /\ th[t].sdepth = d
              /\ th[t].movetime = 0
              /\ th[t].timeout = IF 3 * d > 40 THEN 3 * d ELSE 40

\* A depth above the range was sent as 25, with the deadline 37.5 s.
C10_Witness ==
    \E t \in Callers :
        /\ th[t].pc = "wait" /\ th[t].tl = <<>> /\ th[t].rawdepth > 30
        /\ th[t].sdepth = 25 /\ th[t].timeout = 75

\* C11: with a time budget of T > 0 seconds the search command is "go
\* movetime M" with M = min(1000 * T, 25000) ms, and the deadline of the
\* wait is T + 8 s, not capped when the movetime is.
C11_MovetimeCappedDeadlineNot ==
    \A t \in Callers :
        (th[t].pc = "wait" /\ th[t].tl # <<>> /\ th[t].tl # <<0>>)
        => LET T == th[t].tl[1]
           IN /\ th[t].sdepth = 0
              /\ th[t].movetime = IF 1000 * T < 25000 THEN 1000 * T ELSE 25000
              /\ th[t].timeout = 2 * (T + 8)

\* A budget of 30 s was sent as movetime 25000 with the deadline 38 s.
C11_Witness ==
    \E t \in Callers :
        /\ th[t].pc = "wait" /\ th[t].tl = <<30>>
        /\ th[t].movetime = 25000 /\ th[t].timeout = 76

\* C12: with both a depth and a time budget the search command is a
\* movetime command, and the command and the deadline are the ones of
\* every other depth with that budget.
C12_TimeBudgetBeforeDepth ==
    \A t \in Callers :
        (th[t].pc = "wait" /\ th[t].tl # <<>> /\ th[t].tl # <<0>>)
        => /\ th[t].sdepth = 0 /\ th[t].movetime > 0
           /\ \A d \in (0 - BelowZero)..MaxDepthInput :
                LET s == Search(RouteClamp(d), th[t].tl)
                IN /\ s.cmd = "movetime" /\ s.arg = th[t].movetime
                   /\ s.timeout = th[t].timeout

\* A request with depth 33 and a budget of 3 s was sent as movetime 3000
\* with the deadline 11 s, as /health's depth 5 is.
C12_Witness ==
    \E t \in Callers :
        /\ th[t].pc = "wait" /\ th[t].tl = <<HealthTimeLimit>>
        /\ th[t].rawdepth = MaxDepthInput /\ th[t].sdepth = 0
        /\ th[t].movetime = 3000 /\ th[t].timeout = 22

InHandshake(s) ==
    s.pc \in {"startreader", "uci", "wait_uciok", "setopt", "isready",
              "wait_readyok"}

\* C14: a call that arrives while another caller's restart is in its
\* handshake does not enter the analyze cycle (drain the queue, send a
\* command, pop a line) before the handshake has ended: it blocks or fails
\* fast instead.
C14_NoCycleDuringHandshake ==
    [][\A u \in Callers :
         (th[u].pc = "check" /\ InCycle(th'[u]))
         => ~(\E t \in Callers : InHandshake(th[t]))]_vars

\* C15: a wait that ends without a completion line returns the timeout
\* failure only when the process is alive at that moment and the
\* process-death failure when it has exited, and the caller gets different
\* results for the two.
C15_DeathAndTimeoutDistinct ==
    /\ \A t \in Callers :
         th[t].pc = "returned"
         => /\ th[t].path = "timeout" => th[t].aliveAtRet
            /\ th[t].path = "died" => ~th[t].aliveAtRet
    /\ \A t, u \in Callers :
         (/\ th[t].pc = "returned" /\ th[t].path = "died"
          /\ th[u].pc = "returned" /\ th[u].path = "timeout")
         => th[t].retval # th[u].retval

\* C16: a completion line with fewer than two whitespace-separated fields
\* (a bare "bestmove") is not reported as the no-legal-move failure (nor as
\* a move): it is a protocol error of its own.
C16_BareBestmoveIsProtocolError ==
    \A t \in Callers :
        (th[t].pc = "returned" /\ th[t].line # NoLine
           /\ Len(th[t].line.txt) < 3)
        => th[t].path \notin {"nolegal", "move"}

\* C17: the lines of a process are queued, and so popped, in the order the
\* process wrote them, none of them twice.
C17_LinesInEmissionOrder ==
    \A i, j \in 1..Len(output_queue) :
        (i < j /\ output_queue[i].p = output_queue[j].p)
        => output_queue[i].n < output_queue[j].n

\* C18: at most one reader thread reads the standard output of an engine
\* process at any time; the reader started for the previous process never
\* reads the output of the new one.
C18_OneReaderPerProcess ==
    \A p \in ProcIds :
        Cardinality({r \in ProcIds :
                       readers[r].pc = "read" /\ readers[r].on = p}) <= 1

\* C19: a wait of the handshake or of the analysis (not the drain) pops
\* only lines of the current process: after a restart no line of the
\* previous process is delivered to a wait on the new one.
C19_NoOldLinesAfterRestart ==
    [][(/\ output_queue # <<>> /\ output_queue' = Tail(output_queue)
        /\ \A t \in Callers : th[t].pc # "drain"
        /\ \E t \in Callers :
             th[t].pc \in {"wait_uciok", "wait_readyok", "wait"})
       => Head(output_queue).p = process]_vars

====
